---- MODULE Spec2Model ----
(***************************************************************************)
(* Model of crates/gpui3/src/element.rs: the type-erased element handle    *)
(* (AnyElement), the wrapper that carries the render phase                  *)
(* (RenderedElement / ElementRenderPhase), the conversion IntoAnyElement   *)
(* and the child builders of ParentElement.                                 *)
(*                                                                         *)
(* A Rust Result is modelled by a pair res/val: res is "ok", "err" or      *)
(* "panic" and val is the error value ("" when there is none).  Option is  *)
(* modelled as a sequence of length 0 (None) or 1 (Some).  Pixels are      *)
(* modelled as small integers.                                              *)
(***************************************************************************)
EXTENDS Integers, Sequences, FiniteSets, TLC

\* ---------------------------------------------------------------- bounds
\* Handle calls recorded, over all handles, since their last successful layout.
MaxOps == 3
\* Element layout invocations, over all elements.
MaxLayouts == 2
\* Children held by a parent.
MaxChildren == 4
\* Builder calls (child / children) made on a parent.
MaxCalls == 3
\* FakeGitRepository instances alive at a time.
MaxRepos == 3

Handles == {1, 2}
Slots == {1, 2}
PaintErrors == {"E1", "E2"}
LayoutErrors == {"L1"}
ResolveErrors == {"R1"}

None == << >>
Some(v) == << v >>
Offsets == {None, Some(<<2, 3>>)}

\* ------------------------------------------------- external collaborators
\* Geometry resolved for a slot: fixed for the pass.
ProviderGeometry(layout_id) ==
    [bounds |-> [origin |-> <<10 * layout_id, layout_id>>,
                 size   |-> <<5, 5 + layout_id>>]]

\* cx.layout(layout_id): the provider's resolve.  env.resolve is "ok" or the
\* error the provider fails with.
cx_layout(layout_id, env) ==
    IF env.resolve = "ok"
    THEN [res |-> "ok", val |-> "", layout |-> ProviderGeometry(layout_id)]
    ELSE [res |-> "err", val |-> env.resolve, layout |-> ProviderGeometry(layout_id)]

\* Element::layout of an arbitrary element: the element counts its layout
\* invocations and stamps the frame state it produces with that count, so
\* that frame states of different layout calls are different objects.
Element_layout(element, env) ==
    LET counted == [element EXCEPT !.layouts = @ + 1]
    IN  [element     |-> counted,
         res         |-> IF env.layout = "ok" THEN "ok" ELSE "err",
         val         |-> IF env.layout = "ok" THEN "" ELSE env.layout,
         layout_id   |-> env.id,
         frame_state |-> [gen |-> counted.layouts, n |-> 0]]

\* Element::paint of an arbitrary element: mutates the frame state in place
\* (it counts the paints the frame state went through, so that every call
\* leaves a trace in it) and returns Ok or an error (env.paint).
Element_paint(element, layout, frame_state, env) ==
    LET mutated == [frame_state EXCEPT !.n = @ + 1]
    IN  [res         |-> IF env.paint = "ok" THEN "ok" ELSE "err",
         val         |-> IF env.paint = "ok" THEN "" ELSE env.paint,
         frame_state |-> mutated,
         call        |-> [layout |-> layout, fsIn |-> frame_state,
                          fsOut |-> mutated,
                          res |-> IF env.paint = "ok" THEN "ok" ELSE "err",
                          val |-> IF env.paint = "ok" THEN "" ELSE env.paint]]

LayoutEnvs == [layout : {"ok"} \cup LayoutErrors, id : Slots]
PaintEnvs == [resolve : {"ok"} \cup ResolveErrors,
              paint : {"ok"} \cup PaintErrors]

\* ------------------------------------------------------ ElementRenderPhase
Rendered == [tag |-> "Rendered"]
LayoutRequested(layout_id, frame_state) ==
    [tag |-> "LayoutRequested", layout_id |-> layout_id, frame_state |-> frame_state]
Painted(layout, frame_state) ==
    [tag |-> "Painted", layout |-> layout, frame_state |-> frame_state]

\* #[derive(Default)] with #[default] on Rendered: what mem::take leaves.
ElementRenderPhase_default == Rendered

\* -------------------------------------------------------- RenderedElement
RenderedElement_new(element) ==
    [element |-> element, phase |-> Rendered]

\* layout_id.bounds.origin += offset, when an offset is given
ApplyOffset(layout, offset) ==
    IF offset = None THEN layout
    ELSE [layout EXCEPT !.bounds.origin =
            << @[1] + offset[1][1], @[2] + offset[1][2] >>]

\* Variant: layout that keeps the frame state of a pending layout and only
\* stores the new slot.
RenderedElement_layout_KeepsFrame(self, env) ==
    LET r == Element_layout(self.element, env)
        fs == IF self.phase.tag = "LayoutRequested"
              THEN self.phase.frame_state ELSE r.frame_state
    IN  IF r.res # "ok"
        THEN [self |-> [self EXCEPT !.element = r.element],
              res |-> "err", val |-> r.val, id |-> 0]
        ELSE [self |-> [element |-> r.element,
                        phase |-> LayoutRequested(r.layout_id, fs)],
              res |-> "ok", val |-> "", id |-> r.layout_id]

\* Variant: layout that answers from a pending layout instead of storing
\* the new slot and frame state.
RenderedElement_layout_Cached(self, env) ==
    LET r == Element_layout(self.element, env)
    IN  IF r.res # "ok"
        THEN [self |-> [self EXCEPT !.element = r.element],
              res |-> "err", val |-> r.val, id |-> 0]
        ELSE IF self.phase.tag = "LayoutRequested"
        THEN [self |-> [self EXCEPT !.element = r.element],
              res |-> "ok", val |-> "", id |-> self.phase.layout_id]
        ELSE [self |-> [element |-> r.element,
                        phase |-> LayoutRequested(r.layout_id, r.frame_state)],
              res |-> "ok", val |-> "", id |-> r.layout_id]

\* Variant: layout that leaves a Painted phase (and its cached geometry) in
\* place.
RenderedElement_layout_KeepsPainted(self, env) ==
    LET r == Element_layout(self.element, env)
    IN  IF r.res # "ok"
        THEN [self |-> [self EXCEPT !.element = r.element],
              res |-> "err", val |-> r.val, id |-> 0]
        ELSE IF self.phase.tag = "Painted"
        THEN [self |-> [self EXCEPT !.element = r.element],
              res |-> "ok", val |-> "", id |-> r.layout_id]
        ELSE [self |-> [element |-> r.element,
                        phase |-> LayoutRequested(r.layout_id, r.frame_state)],
              res |-> "ok", val |-> "", id |-> r.layout_id]

\* Variant: layout that keeps the slot of a pending layout and only stores
\* the new frame state.
RenderedElement_layout_KeepsSlot(self, env) ==
    LET r == Element_layout(self.element, env)
        slot == IF self.phase.tag = "LayoutRequested"
                THEN self.phase.layout_id ELSE r.layout_id
    IN  IF r.res # "ok"
        THEN [self |-> [self EXCEPT !.element = r.element],
              res |-> "err", val |-> r.val, id |-> 0]
        ELSE [self |-> [element |-> r.element,
                        phase |-> LayoutRequested(slot, r.frame_state)],
              res |-> "ok", val |-> "", id |-> r.layout_id]

\* Variant: layout that drops the phase before it calls the element, so that
\* a failing element layout leaves Rendered behind.
RenderedElement_layout_DropsFirst(self, env) ==
    LET r == Element_layout(self.element, env)
    IN  IF r.res # "ok"
        THEN [self |-> [element |-> r.element, phase |-> Rendered],
              res |-> "err", val |-> r.val, id |-> 0]
        ELSE [self |-> [element |-> r.element,
                        phase |-> LayoutRequested(r.layout_id, r.frame_state)],
              res |-> "ok", val |-> "", id |-> r.layout_id]

\* RenderedElement::layout
RenderedElement_layout(self, env) ==
    LET r == Element_layout(self.element, env)
    IN  IF r.res # "ok"
        THEN [self |-> [self EXCEPT !.element = r.element],
              res |-> "err", val |-> r.val, id |-> 0]
        ELSE [self |-> [element |-> r.element,
                        phase |-> LayoutRequested(r.layout_id, r.frame_state)],
              res |-> "ok", val |-> "", id |-> r.layout_id]

\* The three arms of the match in RenderedElement::paint.  flow is "value"
\* when the arm evaluates to the new phase, "return" when a ? returns the
\* error early and "panic" when the arm panics.
\* Variant: the Rendered arm succeeds silently.
PaintRendered_Silent ==
    [flow |-> "value", val |-> "",
     phase |-> Rendered, resolved |-> << >>, calls |-> << >>]

PaintRendered ==
    [flow |-> "panic", val |-> "must call layout before paint",
     phase |-> Rendered, resolved |-> << >>, calls |-> << >>]

\* Variant: the LayoutRequested arm caches the frame state as it was before
\* the element painted.
PaintLayoutRequested_StaleFrame(element, taken, offset, env) ==
    LET got == cx_layout(taken.layout_id, env)
        layout == ApplyOffset(got.layout, offset)
        p == Element_paint(element, layout, taken.frame_state, env)
    IN  IF got.res # "ok"
        THEN [flow |-> "return", val |-> got.val, phase |-> Rendered,
              resolved |-> << taken.layout_id >>, calls |-> << >>]
        ELSE IF p.res # "ok"
        THEN [flow |-> "return", val |-> p.val, phase |-> Rendered,
              resolved |-> << taken.layout_id >>, calls |-> << p.call >>]
        ELSE [flow |-> "value", val |-> "",
              phase |-> Painted(layout, taken.frame_state),
              resolved |-> << taken.layout_id >>, calls |-> << p.call >>]

\* Variant: the LayoutRequested arm caches the geometry as resolved, without
\* the offset it painted with.
PaintLayoutRequested_CachesUntranslated(element, taken, offset, env) ==
    LET got == cx_layout(taken.layout_id, env)
        layout == ApplyOffset(got.layout, offset)
        p == Element_paint(element, layout, taken.frame_state, env)
    IN  IF got.res # "ok"
        THEN [flow |-> "return", val |-> got.val, phase |-> Rendered,
              resolved |-> << taken.layout_id >>, calls |-> << >>]
        ELSE IF p.res # "ok"
        THEN [flow |-> "return", val |-> p.val, phase |-> Rendered,
              resolved |-> << taken.layout_id >>, calls |-> << p.call >>]
        ELSE [flow |-> "value", val |-> "",
              phase |-> Painted(got.layout, p.frame_state),
              resolved |-> << taken.layout_id >>, calls |-> << p.call >>]

\* Variant: the LayoutRequested arm paints a second time when the element
\* fails.
PaintLayoutRequested_Retry(element, taken, offset, env) ==
    LET got == cx_layout(taken.layout_id, env)
        layout == ApplyOffset(got.layout, offset)
        p == Element_paint(element, layout, taken.frame_state, env)
        q == Element_paint(element, layout, p.frame_state, env)
    IN  IF got.res # "ok"
        THEN [flow |-> "return", val |-> got.val, phase |-> Rendered,
              resolved |-> << taken.layout_id >>, calls |-> << >>]
        ELSE IF p.res # "ok"
        THEN [flow |-> "return", val |-> q.val, phase |-> Rendered,
              resolved |-> << taken.layout_id >>, calls |-> << p.call, q.call >>]
        ELSE [flow |-> "value", val |-> "",
              phase |-> Painted(layout, p.frame_state),
              resolved |-> << taken.layout_id >>, calls |-> << p.call >>]

\* Variant: the LayoutRequested arm paints even though the resolve failed.
PaintLayoutRequested_PaintsUnresolved(element, taken, offset, env) ==
    LET got == cx_layout(taken.layout_id, env)
        layout == ApplyOffset(got.layout, offset)
        p == Element_paint(element, layout, taken.frame_state, env)
    IN  IF p.res # "ok"
        THEN [flow |-> "return", val |-> p.val, phase |-> Rendered,
              resolved |-> << taken.layout_id >>, calls |-> << p.call >>]
        ELSE IF got.res # "ok"
        THEN [flow |-> "return", val |-> got.val, phase |-> Rendered,
              resolved |-> << taken.layout_id >>, calls |-> << p.call >>]
        ELSE [flow |-> "value", val |-> "",
              phase |-> Painted(layout, p.frame_state),
              resolved |-> << taken.layout_id >>, calls |-> << p.call >>]

PaintLayoutRequested(element, taken, offset, env) ==
    LET got == cx_layout(taken.layout_id, env)
        layout == ApplyOffset(got.layout, offset)
        p == Element_paint(element, layout, taken.frame_state, env)
    IN  IF got.res # "ok"
        THEN [flow |-> "return", val |-> got.val, phase |-> Rendered,
              resolved |-> << taken.layout_id >>, calls |-> << >>]
        ELSE IF p.res # "ok"
        THEN [flow |-> "return", val |-> p.val, phase |-> Rendered,
              resolved |-> << taken.layout_id >>, calls |-> << p.call >>]
        ELSE [flow |-> "value", val |-> "",
              phase |-> Painted(layout, p.frame_state),
              resolved |-> << taken.layout_id >>, calls |-> << p.call >>]

\* Variant: the Painted arm moves the cached geometry by the offset again.
PaintPainted_Reoffsets(element, taken, offset, env) ==
    LET layout == ApplyOffset(taken.layout, offset)
        p == Element_paint(element, layout, taken.frame_state, env)
    IN  IF p.res # "ok"
        THEN [flow |-> "return", val |-> p.val, phase |-> Rendered,
              resolved |-> << >>, calls |-> << p.call >>]
        ELSE [flow |-> "value", val |-> "",
              phase |-> Painted(layout, p.frame_state),
              resolved |-> << >>, calls |-> << p.call >>]

PaintPainted(element, taken, offset, env) ==
    LET p == Element_paint(element, taken.layout, taken.frame_state, env)
    IN  IF p.res # "ok"
        THEN [flow |-> "return", val |-> p.val, phase |-> Rendered,
              resolved |-> << >>, calls |-> << p.call >>]
        ELSE [flow |-> "value", val |-> "",
              phase |-> Painted(taken.layout, p.frame_state),
              resolved |-> << >>, calls |-> << p.call >>]

\* RenderedElement::paint: self.phase = match mem::take(&mut self.phase) {..}
\* The assignment happens only when the arm evaluates to a value; on an
\* early return or a panic the phase keeps what mem::take left in it.
RenderedElement_paint(self, offset, env) ==
    LET taken == self.phase
        emptied == [self EXCEPT !.phase = ElementRenderPhase_default]
        arm == CASE taken.tag = "Rendered" -> PaintRendered
                 [] taken.tag = "LayoutRequested" ->
                        PaintLayoutRequested(self.element, taken, offset, env)
                 [] taken.tag = "Painted" ->
                        PaintPainted(self.element, taken, offset, env)
    IN  [self |-> IF arm.flow = "value"
                  THEN [emptied EXCEPT !.phase = arm.phase]
                  ELSE emptied,
         res |-> CASE arm.flow = "value" -> "ok"
                   [] arm.flow = "return" -> "err"
                   [] arm.flow = "panic" -> "panic",
         val |-> arm.val,
         resolved |-> arm.resolved,
         calls |-> arm.calls]

\* ------------------------------------------------------------- AnyElement
\* AnyElement(Box<dyn ElementObject>): the handle forwards to the box.
AnyElement_layout(any, env) == RenderedElement_layout(any, env)
AnyElement_paint(any, offset, env) == RenderedElement_paint(any, offset, env)

\* impl IntoAnyElement for E
into_any_element(element) == RenderedElement_new(element)
\* Variant: converting a handle wraps its element afresh.
into_any_handle_Rewrap(any) == RenderedElement_new(any.element)

\* impl IntoAnyElement for AnyElement
into_any_handle(any) == any

\* --------------------------------------- direct use of the concrete element
\* A caller that owns the concrete element keeps what Element::layout returned
\* (slot and frame state), resolves the slot through the provider and hands
\* both to Element::paint.
DirectInit == [held |-> FALSE, layout_id |-> 0, frame_state |-> [gen |-> 0, n |-> 0]]

Direct_layout(d, element, env) ==
    LET r == Element_layout(element, env)
    IN  IF r.res = "ok"
        THEN [held |-> TRUE, layout_id |-> r.layout_id, frame_state |-> r.frame_state]
        ELSE d

Direct_paint(d, element, env) ==
    LET got == cx_layout(d.layout_id, env)
        p == Element_paint(element, got.layout, d.frame_state, env)
    IN  IF ~d.held
        THEN [d |-> d, calls |-> << >>, res |-> "none"]
        ELSE IF got.res # "ok"
        THEN [d |-> d, calls |-> << >>, res |-> "err"]
        ELSE [d |-> [d EXCEPT !.frame_state = p.frame_state],
              calls |-> << p.call >>, res |-> p.res]

\* ------------------------------------------------------------------ state
VARIABLES
    handles,    \* handle -> the RenderedElement boxed in it (element, phase)
    direct,     \* handle -> the direct caller driving the same element
    log,        \* handle -> the calls made on it since (and including) its
                \*           last successful layout, or since construction
    actor,      \* the handle the last step called, 0 before the first call
    children,   \* a parent's child collection (sequence of handles)
    pinit,      \* the parent's child collection before the builder calls
    pargs,      \* the items handed to child / children so far, in call order
    pcalls,     \* the builder calls so far: name and number of items handed
    repos,      \* instance -> the FakeGitRepository boxed there, if any
    gstates,    \* Arc -> the FakeGitRepositoryState behind it
    gscan,      \* instance -> the scan id it was last given (at open, by
                \*             set_scan_id, or with the copy boxed_clone made)
    gfamily     \* instance -> the instance it was opened as or cloned from,
                \*             through any number of clones

vars == << handles, direct, log, actor, children, pinit, pargs, pcalls,
           repos, gstates, gscan, gfamily >>
gvars == << repos, gstates, gscan, gfamily >>
hvars == << handles, direct, log, actor >>
pvars == << children, pinit, pargs, pcalls >>

NewElement(name) == [name |-> name, layouts |-> 0]

\* One recorded call on a handle: the call (op, offset), what it returned
\* (res, val, id), the provider resolves and element paints it made, the
\* handle before and after it, and what the direct caller did on the same
\* element (its element paints, the result it got, the slot it holds).
Entry(op, offset, r, before, dcalls, dres, dslot) ==
    [op |-> op, offset |-> offset, res |-> r.res, val |-> r.val, id |-> r.id,
     resolved |-> r.resolved, calls |-> r.calls, before |-> before,
     after |-> r.self, direct |-> dcalls, dres |-> dres, dslot |-> dslot]

RECURSIVE SumLen(_, _)
SumLen(f, S) ==
    IF S = {} THEN 0
    ELSE LET h == CHOOSE x \in S : TRUE IN Len(f[h]) + SumLen(f, S \ {h})
RECURSIVE SumLayouts(_, _)
SumLayouts(f, S) ==
    IF S = {} THEN 0
    ELSE LET h == CHOOSE x \in S : TRUE
         IN  f[h].element.layouts + SumLayouts(f, S \ {h})
\* the calls recorded so far and the element layouts run so far
OpsUsed == SumLen(log, Handles)
LayoutsUsed == SumLayouts(handles, Handles)

\* -------------------------------------------------- FakeGitRepository
\* crates/git/src/repository.rs.  The paths of a repository play no part in
\* scan_id, boxed_clone and load_head_text and are left out.  A HashMap is a
\* function whose domain is its key set.
RepoIds == 1 .. MaxRepos
Arcs == {1, 2}
ScanIds == {0, 7}
Paths == {"a.rs", "b.rs"}
Texts == {"old", "new"}
NoRepo == [open |-> FALSE, scan_id |-> 0, state |-> 1]

\* FakeGitRepositoryState::default
FakeGitRepositoryState_default == [index_contents |-> << >>]

\* FakeGitRepository::open
FakeGitRepository_open(scan_id, state) ==
    [open |-> TRUE, scan_id |-> scan_id, state |-> state]

\* GitRepository::scan_id
FakeGitRepository_scan_id(self) == self.scan_id

\* GitRepository::set_scan_id
FakeGitRepository_set_scan_id(self, scan_id) == [self EXCEPT !.scan_id = scan_id]

\* Variant: the clone starts with scan id 0.
FakeGitRepository_boxed_clone_FreshScan(self) == [self EXCEPT !.scan_id = 0]

\* GitRepository::boxed_clone: #[derive(Clone)] copies scan_id and clones the
\* Arc, which points to the same state
FakeGitRepository_boxed_clone(self) == self

\* HashMap::get(path).cloned()
MapGet(map, path) == IF path \in DOMAIN map THEN Some(map[path]) ELSE None
\* HashMap::insert
MapInsert(map, path, text) ==
    [p \in DOMAIN map \cup {path} |-> IF p = path THEN text ELSE map[p]]
\* HashMap::remove
MapRemove(map, path) == [p \in DOMAIN map \ {path} |-> map[p]]

\* GitRepository::load_head_text: locks the state the Arc points to
FakeGitRepository_load_head_text(self, heap, path) ==
    MapGet(heap[self.state].index_contents, path)

GitIdle ==
    /\ repos = [i \in RepoIds |-> NoRepo]
    /\ gstates = [a \in Arcs |-> FakeGitRepositoryState_default]
    /\ gscan = [i \in RepoIds |-> 0]
    /\ gfamily = [i \in RepoIds |-> 0]

HandlesInit ==
    /\ handles = [h \in Handles |->
                    into_any_element(NewElement(IF h = 1 THEN "A" ELSE "B"))]
    /\ direct = [h \in Handles |-> DirectInit]
    /\ log = [h \in Handles |-> << >>]
    /\ actor = 0

ParentIdle ==
    /\ children = << >>
    /\ pinit = << >>
    /\ pargs = << >>
    /\ pcalls = << >>

Init == HandlesInit /\ ParentIdle /\ GitIdle

\* AnyElement::layout on handle h
Layout(h) ==
    /\ LayoutsUsed < MaxLayouts
    /\ \E env \in LayoutEnvs :
         LET r == AnyElement_layout(handles[h], env)
             d == Direct_layout(direct[h], handles[h].element, env)
             e == Entry("layout", None,
                        [res |-> r.res, val |-> r.val, id |-> r.id,
                         resolved |-> << >>, calls |-> << >>, self |-> r.self],
                        handles[h], << >>, r.res, d.layout_id)
         IN  /\ OpsUsed - (IF r.res = "ok" THEN Len(log[h]) ELSE 0) < MaxOps
             /\ handles' = [handles EXCEPT ![h] = r.self]
             /\ direct' = [direct EXCEPT ![h] = d]
             /\ log' = [log EXCEPT ![h] =
                          IF r.res = "ok" THEN << e >> ELSE Append(@, e)]
    /\ actor' = h
    /\ UNCHANGED << pvars, gvars >>

\* Variant: the phase that paint takes is one that all handles share.
Paint_SharedPhase(h) ==
    /\ OpsUsed < MaxOps
    /\ \E offset \in Offsets, env \in PaintEnvs :
         LET r == AnyElement_paint(handles[h], offset, env)
             d == Direct_paint(direct[h], handles[h].element, env)
             e == Entry("paint", offset,
                        [res |-> r.res, val |-> r.val, id |-> 0,
                         resolved |-> r.resolved, calls |-> r.calls,
                         self |-> r.self],
                        handles[h], d.calls, d.res, d.d.layout_id)
         IN  /\ handles' = [g \in Handles |->
                              IF g = h THEN r.self
                              ELSE [handles[g] EXCEPT !.phase = r.self.phase]]
             /\ direct' = [direct EXCEPT ![h] = d.d]
             /\ log' = [log EXCEPT ![h] = Append(@, e)]
    /\ actor' = h
    /\ UNCHANGED << pvars, gvars >>

\* AnyElement::paint on handle h
Paint(h) ==
    /\ OpsUsed < MaxOps
    /\ \E offset \in Offsets, env \in PaintEnvs :
         LET r == AnyElement_paint(handles[h], offset, env)
             d == Direct_paint(direct[h], handles[h].element, env)
             e == Entry("paint", offset,
                        [res |-> r.res, val |-> r.val, id |-> 0,
                         resolved |-> r.resolved, calls |-> r.calls,
                         self |-> r.self],
                        handles[h], d.calls, d.res, d.d.layout_id)
         IN  /\ handles' = [handles EXCEPT ![h] = r.self]
             /\ direct' = [direct EXCEPT ![h] = d.d]
             /\ log' = [log EXCEPT ![h] = Append(@, e)]
    /\ actor' = h
    /\ UNCHANGED << pvars, gvars >>

\* IntoAnyElement::into_any on handle h (an AnyElement)
IntoAny(h) ==
    /\ OpsUsed < MaxOps
    /\ handles' = [handles EXCEPT ![h] = into_any_handle(@)]
    /\ log' = [log EXCEPT ![h] =
                 Append(@, Entry("into_any", None,
                                 [res |-> "ok", val |-> "", id |-> 0,
                                  resolved |-> << >>, calls |-> << >>,
                                  self |-> into_any_handle(handles[h])],
                                 handles[h], << >>, "ok", direct[h].layout_id))]
    /\ actor' = h
    /\ UNCHANGED << direct, pvars, gvars >>

Next == \E h \in Handles : Layout(h) \/ Paint(h) \/ IntoAny(h)

Spec == Init /\ [][Next]_vars

\* ---------------------------------------------------------- ParentElement
\* What child and children accept: a concrete element (converted by impl
\* IntoAnyElement for E) or an AnyElement (converted by the identity impl).
ElementItem(name) == [kind |-> "element", v |-> NewElement(name)]
AnyItem(any) == [kind |-> "any", v |-> any]

IntoAnyElement_into_any(item) ==
    IF item.kind = "element" THEN into_any_element(item.v)
    ELSE into_any_handle(item.v)

\* SmallVec::push
Push(vec, x) == Append(vec, x)

\* SmallVec::extend over iter.map(|item| item.into_any()): pushes the items
\* in iteration order
RECURSIVE Extend(_, _)
Extend(vec, iter) ==
    IF iter = << >> THEN vec
    ELSE Extend(Push(vec, IntoAnyElement_into_any(Head(iter))), Tail(iter))

\* ParentElement::child
ParentElement_child(vec, item) == Push(vec, IntoAnyElement_into_any(item))
\* Variant: children puts the new items in front of the existing ones.
ParentElement_children_Front(vec, iter) == Extend(<< >>, iter) \o vec

\* ParentElement::children
ParentElement_children(vec, iter) == Extend(vec, iter)

ChildNames == {"A", "B", "C", "D"}
\* a handle that was laid out before it is handed to a parent
LaidOutHandle(name) ==
    AnyElement_layout(into_any_element(NewElement(name)),
                      [layout |-> "ok", id |-> 1]).self
ChildItems == {ElementItem(n) : n \in ChildNames} \cup {AnyItem(LaidOutHandle("A"))}
IterArgs ==
    {<< >>} \cup {<< x >> : x \in ChildItems}
            \cup {<< ElementItem(a), ElementItem(b) >> : a, b \in ChildNames}
InitialChildren ==
    {<< >>,
     << into_any_element(NewElement("B")) >>,
     << into_any_element(NewElement("B")), LaidOutHandle("A") >>}

InitParent ==
    /\ HandlesInit
    /\ children \in InitialChildren
    /\ pinit = children
    /\ pargs = << >>
    /\ pcalls = << >>
    /\ GitIdle

Child ==
    /\ Len(children) < MaxChildren
    /\ Len(pcalls) < MaxCalls
    /\ \E item \in ChildItems :
         /\ children' = ParentElement_child(children, item)
         /\ pargs' = Append(pargs, item)
         /\ pcalls' = Append(pcalls, [op |-> "child", n |-> 1])
    /\ pinit' = pinit
    /\ UNCHANGED << hvars, gvars >>

Children ==
    /\ Len(pcalls) < MaxCalls
    /\ \E iter \in IterArgs :
         /\ Len(children) + Len(iter) <= MaxChildren
         /\ children' = ParentElement_children(children, iter)
         /\ pargs' = pargs \o iter
         /\ pcalls' = Append(pcalls, [op |-> "children", n |-> Len(iter)])
    /\ pinit' = pinit
    /\ UNCHANGED << hvars, gvars >>

NextParent == Child \/ Children

SpecParent == InitParent /\ [][NextParent]_vars

\* ------------------------------------------------ FakeGitRepository steps
InitGit == HandlesInit /\ ParentIdle /\ GitIdle

\* FakeGitRepository::open into the free place i
Open(i) ==
    /\ ~repos[i].open
    /\ \E scan_id \in ScanIds, state \in Arcs :
         /\ repos' = [repos EXCEPT ![i] = FakeGitRepository_open(scan_id, state)]
         /\ gscan' = [gscan EXCEPT ![i] = scan_id]
    /\ gfamily' = [gfamily EXCEPT ![i] = i]
    /\ UNCHANGED << gstates, hvars, pvars >>

\* set_scan_id on instance i
SetScanId(i) ==
    /\ repos[i].open
    /\ \E scan_id \in ScanIds :
         /\ repos' = [repos EXCEPT ![i] = FakeGitRepository_set_scan_id(@, scan_id)]
         /\ gscan' = [gscan EXCEPT ![i] = scan_id]
    /\ UNCHANGED << gstates, gfamily, hvars, pvars >>

\* boxed_clone of instance i into the free place j
BoxedClone(i, j) ==
    /\ repos[i].open
    /\ ~repos[j].open
    /\ repos' = [repos EXCEPT ![j] = FakeGitRepository_boxed_clone(repos[i])]
    /\ gscan' = [gscan EXCEPT ![j] = FakeGitRepository_scan_id(repos[i])]
    /\ gfamily' = [gfamily EXCEPT ![j] = gfamily[i]]
    /\ UNCHANGED << gstates, hvars, pvars >>

\* a holder of the Arc locks the state and inserts into index_contents
InsertIndex(a) ==
    /\ \E path \in Paths, text \in Texts :
         gstates' = [gstates EXCEPT ![a].index_contents = MapInsert(@, path, text)]
    /\ UNCHANGED << repos, gscan, gfamily, hvars, pvars >>

\* a holder of the Arc locks the state and removes from index_contents
RemoveIndex(a) ==
    /\ \E path \in DOMAIN gstates[a].index_contents :
         gstates' = [gstates EXCEPT ![a].index_contents = MapRemove(@, path)]
    /\ UNCHANGED << repos, gscan, gfamily, hvars, pvars >>

NextGit ==
    \/ \E i \in RepoIds : Open(i) \/ SetScanId(i)
    \/ \E i \in RepoIds, j \in RepoIds : BoxedClone(i, j)
    \/ \E a \in Arcs : InsertIndex(a) \/ RemoveIndex(a)

SpecGit == InitGit /\ [][NextGit]_vars

\* ============================================================== properties
Last(h) == log[h][Len(log[h])]
\* the calls recorded for h start with its last successful layout
LaidOut(h) ==
    /\ log[h] # << >>
    /\ log[h][1].op = "layout"
    /\ log[h][1].res = "ok"
Add(p, q) == << p[1] + q[1], p[2] + q[2] >>
Delta(offset) == IF offset = None THEN <<0, 0>> ELSE offset[1]

\* C1: a paint on a handle on which no layout has succeeded since it was
\* constructed, with any offset, ends in the panic: it returns neither Ok nor
\* an error, and neither the provider's resolve nor the element's paint runs.
C1_PaintBeforeLayoutPanics ==
    \A h \in Handles :
        ~LaidOut(h) =>
            \A i \in 1 .. Len(log[h]) :
                log[h][i].op = "paint" =>
                    /\ log[h][i].res = "panic"
                    /\ log[h][i].resolved = << >>
                    /\ log[h][i].calls = << >>

C1_Witness ==
    \E h \in Handles :
        /\ ~LaidOut(h)
        /\ Len(log[h]) >= 2
        /\ log[h][1].op = "layout" /\ log[h][1].res = "err"
        /\ Last(h).op = "paint" /\ Last(h).offset # None
        /\ Last(h).res = "panic"

\* C2: when the element's own paint returns an error to a handle in
\* LayoutRequested or Painted phase, the phase after the handle's paint is
\* the phase before it.
C2_FailedPaintKeepsPhase ==
    \A h \in Handles :
        ( /\ log[h] # << >>
          /\ Last(h).op = "paint"
          /\ Last(h).before.phase.tag \in {"LayoutRequested", "Painted"}
          /\ Last(h).calls # << >>
          /\ Last(h).calls[1].res = "err" )
        => handles[h].phase = Last(h).before.phase

\* C3: successful layout, successful paint, paint: the element's paint runs
\* exactly twice (once per paint), both times with the same geometry and the
\* same frame state (the second call starts from the frame state the first
\* left), and the provider resolves exactly once, for the layout's slot.
C3_RepaintReusesGeometryAndFrame ==
    \A h \in Handles :
        ( /\ LaidOut(h) /\ Len(log[h]) = 3
          /\ log[h][2].op = "paint" /\ log[h][2].res = "ok"
          /\ log[h][3].op = "paint" )
        => /\ Len(log[h][2].calls) = 1
           /\ Len(log[h][3].calls) = 1
           /\ log[h][3].calls[1].layout = log[h][2].calls[1].layout
           /\ log[h][3].calls[1].fsIn = log[h][2].calls[1].fsOut
           /\ log[h][2].calls[1].fsIn = log[h][1].after.phase.frame_state
           /\ log[h][2].resolved \o log[h][3].resolved = << log[h][1].id >>

C3_Witness ==
    \E h \in Handles :
        /\ LaidOut(h) /\ Len(log[h]) = 3
        /\ log[h][2].op = "paint" /\ log[h][2].res = "ok"
        /\ log[h][2].offset # None
        /\ log[h][3].op = "paint" /\ log[h][3].res = "ok"
        /\ log[h][3].calls[1].fsIn.n = 1

\* C4: when a layout succeeds on a handle whose previous layout was not yet
\* painted, every paint until the next layout hands the element the frame
\* state of the second layout, never that of the first, and resolves only the
\* slot the second layout returned.
C4_SecondLayoutReplacesFirst ==
    \A h \in Handles :
        ( /\ LaidOut(h)
          /\ log[h][1].before.phase.tag = "LayoutRequested" )
        => \A i \in 2 .. Len(log[h]) :
              /\ \A k \in 1 .. Len(log[h][i].calls) :
                    /\ log[h][i].calls[k].fsIn.gen =
                          log[h][1].after.phase.frame_state.gen
                    /\ log[h][i].calls[k].fsIn.gen #
                          log[h][1].before.phase.frame_state.gen
              /\ \A k \in 1 .. Len(log[h][i].resolved) :
                    log[h][i].resolved[k] = log[h][1].id
              /\ (i = 2 /\ log[h][2].calls # << >>) =>
                    log[h][2].calls[1].fsIn = log[h][1].after.phase.frame_state

C4_Witness ==
    \E h \in Handles :
        /\ LaidOut(h)
        /\ log[h][1].before.phase.tag = "LayoutRequested"
        /\ log[h][1].before.phase.layout_id # log[h][1].id
        /\ Len(log[h]) = 3
        /\ log[h][2].op = "paint" /\ log[h][2].res = "ok"
        /\ log[h][3].op = "paint" /\ log[h][3].res = "ok"

\* C5: the first paint after a fresh successful layout hands the element the
\* provider's geometry for the layout's slot with the origin moved by the
\* offset (not moved for None) and the size unchanged; when that paint
\* succeeded, a following paint with None hands over the same geometry.
C5_OffsetApplication ==
    \A h \in Handles :
        ( /\ LaidOut(h) /\ Len(log[h]) >= 2
          /\ log[h][2].op = "paint"
          /\ log[h][2].calls # << >> )
        => LET g == ProviderGeometry(log[h][1].id)
               first == log[h][2].calls[1].layout
           IN  /\ first.bounds.origin =
                     Add(g.bounds.origin, Delta(log[h][2].offset))
               /\ first.bounds.size = g.bounds.size
               /\ ( /\ Len(log[h]) >= 3
                    /\ log[h][2].res = "ok"
                    /\ log[h][3].op = "paint"
                    /\ log[h][3].offset = None )
                  => /\ Len(log[h][3].calls) = 1
                     /\ log[h][3].calls[1].layout = first

C5_Witness ==
    \E h \in Handles :
        /\ LaidOut(h) /\ Len(log[h]) = 3
        /\ log[h][2].op = "paint" /\ log[h][2].res = "ok"
        /\ log[h][2].offset = Some(<<2, 3>>)
        /\ log[h][3].op = "paint" /\ log[h][3].offset = None
        /\ log[h][3].calls[1].layout.bounds.origin =
              Add(ProviderGeometry(log[h][1].id).bounds.origin, <<2, 3>>)

\* C6: in a step where a handle's paint runs the element's paint and the
\* element returns an error, the handle returns that very error, the element
\* was painted exactly once, and every other handle keeps its element, its
\* phase and its record of calls.
C6_ErrorPropagation ==
    [][ \A h \in Handles :
          ( /\ actor' = h
            /\ Len(log'[h]) = Len(log[h]) + 1
            /\ log'[h][Len(log'[h])].op = "paint"
            /\ \E k \in 1 .. Len(log'[h][Len(log'[h])].calls) :
                  log'[h][Len(log'[h])].calls[k].res = "err" )
          => LET e == log'[h][Len(log'[h])]
             IN  /\ Len(e.calls) = 1
                 /\ e.res = "err"
                 /\ e.val = e.calls[1].val
                 /\ e.val \in PaintErrors
                 /\ \A g \in Handles \ {h} :
                       /\ handles'[g] = handles[g]
                       /\ log'[g] = log[g] ]_vars

C6_Witness ==
    \E h \in Handles, g \in Handles :
        /\ g # h /\ actor = h
        /\ handles[g].phase.tag = "LayoutRequested"
        /\ log[h] # << >>
        /\ Last(h).op = "paint" /\ Last(h).res = "err"
        /\ Last(h).before.phase.tag = "LayoutRequested"
        /\ Len(Last(h).calls) = 1
        /\ Last(h).val = "E2"

\* C7: child appends its item at the end and children appends its items at
\* the end in iteration order: the child collection always is the initial one
\* (kept as it was, handle by handle) followed by every item handed over so
\* far, in call order, duplicates included; so child(A).child(B).children([C,
\* D]) on an empty parent holds A, B, C, D.
ItemName(item) ==
    IF item.kind = "element" THEN item.v.name ELSE item.v.element.name
ChildNamesOf(vec) == [i \in 1 .. Len(vec) |-> vec[i].element.name]
ChainABCD ==
    /\ pinit = << >>
    /\ pcalls = << [op |-> "child", n |-> 1], [op |-> "child", n |-> 1],
                   [op |-> "children", n |-> 2] >>
    /\ [i \in 1 .. Len(pargs) |-> ItemName(pargs[i])] = << "A", "B", "C", "D" >>

C7_ChildOrdering ==
    /\ Len(children) = Len(pinit) + Len(pargs)
    /\ \A i \in 1 .. Len(pinit) : children[i] = pinit[i]
    /\ \A i \in 1 .. Len(pargs) :
          children[Len(pinit) + i].element.name = ItemName(pargs[i])
    /\ ChainABCD => ChildNamesOf(children) = << "A", "B", "C", "D" >>

C7_Witness ==
    /\ ChainABCD
    /\ ChildNamesOf(children) = << "A", "B", "C", "D" >>

\* C8: driven through the handle with offset None and without failures (of
\* the handle's calls or of the direct calls), the element sees the calls it sees when its owner calls it directly: layout
\* returns the slot the element returned, and every paint since that layout
\* runs the element's paint once with the geometry and the frame state
\* (before and after) of the direct call.
CleanUpTo(h, i) ==
    \A j \in 2 .. i :
        /\ log[h][j].op = "paint"
        /\ log[h][j].offset = None
        /\ log[h][j].res = "ok"
        /\ log[h][j].dres = "ok"

C8_RoundTrip ==
    \A h \in Handles :
        LaidOut(h) =>
            /\ log[h][1].id = log[h][1].dslot
            /\ \A i \in 2 .. Len(log[h]) :
                  CleanUpTo(h, i) =>
                      /\ Len(log[h][i].calls) = 1
                      /\ log[h][i].calls = log[h][i].direct
                      /\ log[h][i].dslot = log[h][1].id

C8_Witness ==
    \E h \in Handles :
        /\ LaidOut(h) /\ Len(log[h]) = 3
        /\ log[h][1].before.phase.tag = "LayoutRequested"
        /\ CleanUpTo(h, 3)
        /\ log[h][3].direct # << >>
        /\ log[h][3].direct[1].fsIn.n = 1

\* C9: a handle made from a concrete element starts in the Rendered
\* (unrendered) phase; into_any on a handle leaves element and phase as they
\* were, so a paint that follows the conversion of a laid-out handle starts
\* from the phase held before the conversion and does not panic.
C9_Conversion ==
    \A h \in Handles :
        /\ log[h] = << >> => handles[h].phase = Rendered
        /\ \A i \in 1 .. Len(log[h]) :
              log[h][i].op = "into_any" =>
                  /\ log[h][i].after = log[h][i].before
                  /\ (i = Len(log[h])) => handles[h] = log[h][i].before
                  /\ ( /\ i < Len(log[h])
                       /\ log[h][i + 1].op = "paint"
                       /\ log[h][i].before.phase.tag # "Rendered" )
                     => /\ log[h][i + 1].res # "panic"
                        /\ log[h][i + 1].resolved # << >> \/ log[h][i + 1].calls # << >>

C9_Witness ==
    \E h \in Handles :
        /\ LaidOut(h) /\ Len(log[h]) = 3
        /\ log[h][2].op = "into_any"
        /\ log[h][3].op = "paint" /\ log[h][3].res = "ok"
        /\ handles[h].phase.tag = "Painted"

\* C10: the phase of a handle changes only along Rendered -> LayoutRequested,
\* LayoutRequested -> LayoutRequested, Painted -> LayoutRequested,
\* LayoutRequested -> Painted and Painted -> Painted; in particular no step
\* takes a handle back to Rendered.
DocumentedTransitions ==
    { << "Rendered", "LayoutRequested" >>,
      << "LayoutRequested", "LayoutRequested" >>,
      << "Painted", "LayoutRequested" >>,
      << "LayoutRequested", "Painted" >>,
      << "Painted", "Painted" >> }

C10_DocumentedTransitions ==
    [][ \A h \in Handles :
          handles'[h].phase # handles[h].phase =>
              << handles[h].phase.tag, handles'[h].phase.tag >>
                  \in DocumentedTransitions ]_vars

\* C11: a successful layout, from any phase, returns the slot the element's
\* layout returned and leaves the handle in LayoutRequested with that slot
\* and the frame state of this layout; after a layout on a Painted handle the
\* next paint resolves the new slot and paints with the provider's geometry
\* for it moved by that paint's own offset, not with the geometry cached
\* before.
C11_LayoutStartsOver ==
    \A h \in Handles :
        LaidOut(h) =>
            LET l == log[h][1]
            IN  /\ l.id = l.dslot
                /\ l.after.phase.tag = "LayoutRequested"
                /\ l.after.phase.layout_id = l.id
                /\ l.after.phase.frame_state =
                      [gen |-> l.after.element.layouts, n |-> 0]
                /\ (Len(log[h]) = 1) => handles[h] = l.after
                /\ ( /\ Len(log[h]) >= 2
                     /\ log[h][2].op = "paint" )
                   => /\ log[h][2].resolved = << l.id >>
                      /\ \A k \in 1 .. Len(log[h][2].calls) :
                            /\ log[h][2].calls[k].layout.bounds.origin =
                                  Add(ProviderGeometry(l.id).bounds.origin,
                                      Delta(log[h][2].offset))
                            /\ log[h][2].calls[k].layout.bounds.size =
                                  ProviderGeometry(l.id).bounds.size
                            /\ log[h][2].calls[k].fsIn = l.after.phase.frame_state

C11_Witness ==
    \E h \in Handles :
        /\ LaidOut(h) /\ Len(log[h]) = 2
        /\ log[h][1].before.phase.tag = "Painted"
        /\ log[h][2].op = "paint" /\ log[h][2].res = "ok"
        /\ log[h][2].offset = None
        /\ log[h][1].before.phase.layout.bounds.origin =
              Add(ProviderGeometry(log[h][1].id).bounds.origin, <<2, 3>>)
        /\ handles[h].phase.layout = ProviderGeometry(log[h][1].id)

RECURSIVE ResolvedSince(_, _)
ResolvedSince(h, i) ==
    IF i = 0 THEN << >> ELSE ResolvedSince(h, i - 1) \o log[h][i].resolved

C13_ResolveCurrentSlotOnce ==
    \A h \in Handles :
        LET all == ResolvedSince(h, Len(log[h]))
        IN  /\ Len(all) <= 1
            /\ ~LaidOut(h) => all = << >>
            /\ \A k \in 1 .. Len(all) : all[k] = log[h][1].id

C13_Witness ==
    \E h \in Handles :
        /\ LaidOut(h) /\ Len(log[h]) = 3
        /\ log[h][1].before.phase.tag = "LayoutRequested"
        /\ log[h][1].before.phase.layout_id # log[h][1].id
        /\ log[h][2].op = "paint" /\ log[h][2].res = "err"
        /\ log[h][2].resolved = << log[h][1].id >>
        /\ log[h][3].op = "paint"

\* C14: when the element's layout returns an error, the handle's layout
\* returns that error and leaves the phase as it was: a paint that follows
\* still resolves the slot and uses the frame state of the earlier layout
\* (LayoutRequested), or paints with the cached geometry and frame state
\* (Painted), or panics (Rendered).
C14_FailedLayoutKeepsPhase ==
    \A h \in Handles :
        \A i \in 1 .. Len(log[h]) :
            ( /\ log[h][i].op = "layout"
              /\ log[h][i].res # "ok" )
            => LET e == log[h][i]
                   was == e.before.phase
               IN  /\ e.res = "err"
                   /\ e.val \in LayoutErrors
                   /\ e.after.phase = was
                   /\ (i = Len(log[h])) => handles[h].phase = was
                   /\ (i < Len(log[h]) /\ log[h][i + 1].op = "paint") =>
                        LET p == log[h][i + 1]
                        IN  /\ was.tag = "Rendered" =>
                                  /\ p.res = "panic"
                                  /\ p.calls = << >>
                            /\ was.tag = "LayoutRequested" =>
                                  /\ p.resolved = << was.layout_id >>
                                  /\ \A k \in 1 .. Len(p.calls) :
                                        p.calls[k].fsIn = was.frame_state
                            /\ was.tag = "Painted" =>
                                  /\ Len(p.calls) = 1
                                  /\ p.calls[1].layout = was.layout
                                  /\ p.calls[1].fsIn = was.frame_state

C14_Witness ==
    \E h \in Handles :
        /\ LaidOut(h) /\ Len(log[h]) = 3
        /\ log[h][2].op = "layout" /\ log[h][2].res = "err"
        /\ log[h][2].val = "L1"
        /\ log[h][3].op = "paint" /\ log[h][3].res = "ok"
        /\ log[h][3].calls[1].fsIn = log[h][1].after.phase.frame_state
        /\ handles[h].element.layouts = 2

\* C15: when the provider's resolve fails in a paint on a LayoutRequested
\* handle (the direct caller, resolving the same slot in the same step, gets
\* the failure and paints nothing), the handle's paint returns the provider's
\* error and does not run the element's paint; and whenever the element's
\* paint runs, the slot of the last layout was resolved successfully and the
\* geometry handed over is the provider's for that slot (moved by an offset
\* at most).
ResolveFailed(e) ==
    /\ e.op = "paint"
    /\ e.before.phase.tag = "LayoutRequested"
    /\ e.direct = << >>
    /\ e.dres = "err"

C15_ResolveFailureSkipsPaint ==
    \A h \in Handles :
        \A i \in 1 .. Len(log[h]) :
            LET e == log[h][i]
            IN  /\ ResolveFailed(e) =>
                      /\ e.res = "err"
                      /\ e.val \in ResolveErrors
                      /\ e.calls = << >>
                      /\ e.resolved = << e.before.phase.layout_id >>
                /\ (e.op = "paint" /\ e.calls # << >>) =>
                      /\ LaidOut(h)
                      /\ ~ResolveFailed(e)
                      /\ \E j \in 2 .. i :
                            /\ log[h][j].resolved = << log[h][1].id >>
                            /\ ~ResolveFailed(log[h][j])
                      /\ \A k \in 1 .. Len(e.calls) :
                            e.calls[k].layout.bounds.size =
                               ProviderGeometry(log[h][1].id).bounds.size

C15_Witness ==
    \E h \in Handles :
        /\ LaidOut(h) /\ Len(log[h]) = 2
        /\ ResolveFailed(log[h][2])
        /\ log[h][2].offset # None
        /\ log[h][2].val = "R1"
        /\ log[h][2].calls = << >>

\* C16: a call on one handle, whether it succeeds, fails or panics, leaves the
\* element, phase and record of calls of every other handle as they were; so
\* however the calls of two handles interleave, each call on a handle starts
\* from the handle as its own previous call left it, and the handle holds
\* what its own last call left.
OwnSequence(h, lg, hd) ==
    /\ \A i \in 1 .. Len(lg[h]) - 1 : lg[h][i + 1].before = lg[h][i].after
    /\ lg[h] # << >> => hd[h] = lg[h][Len(lg[h])].after

C16_HandlesOwnTheirPhase ==
    [][ \A h \in Handles :
          /\ actor' = h =>
                \A g \in Handles \ {h} :
                    /\ handles'[g] = handles[g]
                    /\ log'[g] = log[g]
                    /\ direct'[g] = direct[g]
          /\ OwnSequence(h, log', handles') ]_vars

C16_Witness ==
    \E h \in Handles, g \in Handles :
        /\ g # h /\ actor = h
        /\ log[h] # << >> /\ Last(h).op = "paint" /\ Last(h).res = "panic"
        /\ Len(log[g]) = 2
        /\ log[g][2].op = "paint" /\ log[g][2].res = "ok"
        /\ handles[g].phase.tag = "Painted"

\* C17: scan_id() of a fake repository is the value it was last given: at
\* open, by set_scan_id on that instance, or, for a clone, the scan id its
\* source had when boxed_clone copied it (later set_scan_id calls on either
\* do not reach the other); and after any change of the shared state an
\* instance and all its clones load the same head text for every path.
C17_ScanIdOwnIndexShared ==
    /\ \A i \in RepoIds :
          repos[i].open => FakeGitRepository_scan_id(repos[i]) = gscan[i]
    /\ \A i \in RepoIds, j \in RepoIds :
          (repos[i].open /\ repos[j].open /\ gfamily[i] = gfamily[j]) =>
              \A path \in Paths :
                  FakeGitRepository_load_head_text(repos[i], gstates, path) =
                  FakeGitRepository_load_head_text(repos[j], gstates, path)

C17_Witness ==
    \E i \in RepoIds, j \in RepoIds, k \in RepoIds :
        /\ repos[i].open /\ repos[j].open /\ repos[k].open
        /\ i # j /\ gfamily[i] = i /\ gfamily[j] = i /\ gfamily[k] = k /\ k # i
        /\ FakeGitRepository_scan_id(repos[i]) = 0
        /\ FakeGitRepository_scan_id(repos[j]) = 7
        /\ FakeGitRepository_load_head_text(repos[j], gstates, "a.rs") = Some("new")
        /\ FakeGitRepository_load_head_text(repos[j], gstates, "b.rs") = None
        /\ FakeGitRepository_load_head_text(repos[k], gstates, "a.rs") = Some("old")

====
